---- MODULE Spec2Model ----
(***************************************************************************)
(* Model of python-crawler/crawler.py: the crawl controller                *)
(* (crawl_website), the fetch coroutine (fetch_page) with its semaphore,   *)
(* redirect following and error handling, the content-hash deduplication,  *)
(* the extraction dispatcher (extract_page_data) and the URL normalizer    *)
(* and filter (normalize_url, is_allowed_url).                             *)
(*                                                                         *)
(* A URL is a record [path, query, frag].  The scheme and host are the     *)
(* same for every URL of the model ("https://kbtu.edu.kz") and are left    *)
(* out of the record.  A path is a sequence of tokens, "/en/about" being   *)
(* <<"/", "en", "/", "about">>, so that the anchored regular expressions   *)
(* of the filter are prefix tests on token sequences.  A query is a        *)
(* sequence of <<key, value>> pairs in the order they appear.              *)
(***************************************************************************)
EXTENDS Integers, Sequences, FiniteSets, TLC

\* ------------------------------------------------------------------------
\* Configuration (crawler.py lines 20-23, 85), scaled down for checking.
\* ------------------------------------------------------------------------
MAX_DEPTH == 2

MAX_PAGES == 4

CONCURRENT_REQUESTS == 2

\* urls_to_crawl[:10] in crawl_website: the number of tasks per batch.
BATCH_SIZE == 2

\* len(set(value)) <= 5 in normalize_url.
MAX_PARAM_VALUES == 5

\* The longest query string, in parameters, of the URLs normalize_url and
\* is_allowed_url are applied to, not counting a block of repeated values.
MaxQueryLen == 2

\* ------------------------------------------------------------------------
\* URLs
\* ------------------------------------------------------------------------
Url(p, q, f) == [path |-> p, query |-> q, frag |-> f]

\* The empty string "" used as discovered_from / duplicate_of default.
NoURL == Url(<<>>, <<>>, "")

BASE_URL == Url(<<"/", "en", "/">>, <<>>, "")

StartsWith(s, p) == Len(s) >= Len(p) /\ SubSeq(s, 1, Len(p)) = p

\* TRACKING_PARAMS matched with re.match(param.replace("*", ".*"), key),
\* over the query keys of the model.
IsTracking(key) ==
    key \in {"utm_source", "utm_medium", "fbclid", "gclid", "mc_cid", "mc_eid"}

STABLE_PARAMS == {"page", "q", "category", "tag", "date"}

\* parse_qs: the pairs with a blank value are dropped.
NonBlank(q) == SelectSeq(q, LAMBDA kv : kv[2] # "")

\* The keys of a parsed query, last key first.
RECURSIVE KeyOrderReversed(_)
KeyOrderReversed(q) ==
    IF q = <<>> THEN <<>>
    ELSE LET k == q[Len(q)][1]
             rest == SelectSeq(SubSeq(q, 1, Len(q) - 1), LAMBDA kv : kv[1] # k)
         IN <<k>> \o KeyOrderReversed(rest)

\* The keys of a parsed query, in order of first appearance (dict order).
RECURSIVE KeyOrder(_)
KeyOrder(q) ==
    IF q = <<>> THEN <<>>
    ELSE LET k == q[1][1]
             rest == SelectSeq(Tail(q), LAMBDA kv : kv[1] # k)
         IN <<k>> \o KeyOrder(rest)

\* The list of values parse_qs collects for one key.
ValuesOf(q, k) == SelectSeq(q, LAMBDA kv : kv[1] = k)

\* The keys normalize_url keeps: not tracking, and stable or few values.
KeepKey(q, k) ==
    /\ ~IsTracking(k)
    /\ \/ k \in STABLE_PARAMS
       \/ Cardinality({ValuesOf(q, k)[i][2] : i \in 1..Len(ValuesOf(q, k))})
            <= MAX_PARAM_VALUES

\* urlencode(filtered_params, doseq=True): key by key, value by value.
RECURSIVE EncodeKeys(_, _)
EncodeKeys(q, keys) ==
    IF keys = <<>> THEN <<>>
    ELSE (IF KeepKey(q, keys[1]) THEN ValuesOf(q, keys[1]) ELSE <<>>)
         \o EncodeKeys(q, Tail(keys))

normalize_url(url) ==
    LET parsed == NonBlank(url.query)
    IN Url(url.path, EncodeKeys(parsed, KeyOrder(parsed)), "")

\* The string of a URL as re.match sees it: scheme and host, path, query.
RECURSIVE QueryTokens(_, _)
QueryTokens(q, first) ==
    IF q = <<>> THEN <<>>
    ELSE <<(IF first THEN "?" ELSE "&"), q[1][1], "=", q[1][2]>>
         \o QueryTokens(Tail(q), FALSE)

UrlTokens(url) ==
    <<"https://kbtu.edu.kz">> \o url.path \o QueryTokens(url.query, TRUE)

\* re.match(pattern, s) for each pattern of DENY_PATTERNS: a match must start
\* at the first character of s.
DenyMatch(s) ==
    \/ /\ Len(s) >= 2 /\ s[1] = "/" /\ s[2] \in {"ru", "kk"}
       /\ (Len(s) = 2 \/ s[3] = "/")
    \/ /\ Len(s) >= 2 /\ s[1] = "lang" /\ s[2] = "="
       /\ ~(Len(s) >= 3 /\ s[3] = "en")
    \/ \E w \in {"login", "admin", "user", "basket", "cart"} :
           StartsWith(s, <<"/", w>>)
    \/ StartsWith(s, <<"/", "en", "/", "search">>)
    \/ StartsWith(s, <<"?", "s", "=">>)
    \/ StartsWith(s, <<"?", "search", "=">>)
    \/ /\ Len(s) = 1
       /\ s[1] \in {".pdf", ".doc", ".docx", ".xls", ".xlsx", ".ppt", ".pptx",
                    ".zip", ".rar", ".7z", ".mp4", ".avi", ".webm", ".mov"}

ALLOW_SECTIONS ==
    {"about", "academics", "admissions", "research", "news", "events",
     "faculties", "schools", "departments", "contacts", "career", "centers",
     "library"}

\* re.match(pattern, path) for each pattern of ALLOW_PATTERNS.
AllowMatch(path) ==
    \/ path = <<"/", "en">>
    \/ path = <<"/", "en", "/">>
    \/ \E w \in ALLOW_SECTIONS : StartsWith(path, <<"/", "en", "/", w>>)

\* is_allowed_url without the test of line 119.
is_allowed_url_any_prefix(url) ==
    IF DenyMatch(UrlTokens(url)) \/ DenyMatch(url.path) THEN FALSE
    ELSE AllowMatch(url.path)

is_allowed_url(url) ==
    IF ~StartsWith(url.path, <<"/", "en", "/">>) THEN FALSE
    ELSE IF DenyMatch(UrlTokens(url)) \/ DenyMatch(url.path) THEN FALSE
    ELSE AllowMatch(url.path)

\* "/w" in path
InPath(path, w) ==
    \E i \in 1..(Len(path) - 1) : path[i] = "/" /\ path[i + 1] = w

get_url_type(url, article) ==
    IF url.path = <<"/", "en", "/">> \/ url.path = <<"/", "en">> THEN "home"
    ELSE IF InPath(url.path, "news") THEN "listing"
    ELSE IF InPath(url.path, "events") THEN "event"
    ELSE IF InPath(url.path, "faculty") \/ InPath(url.path, "faculties")
         THEN "faculty"
    ELSE IF InPath(url.path, "department") \/ InPath(url.path, "departments")
         THEN "department"
    ELSE IF \E w \in {"academics", "about", "admissions", "research"} :
                InPath(url.path, w) THEN "page"
    ELSE IF InPath(url.path, "contacts") THEN "contact"
    ELSE IF \E w \in {"career", "centers", "library"} : InPath(url.path, w)
         THEN "page"
    ELSE IF article THEN "article" ELSE "page"

\* ------------------------------------------------------------------------
\* The site: the URLs that occur as links and Location headers, the HTML
\* bodies a server may return, and the responses of session.get.
\* ------------------------------------------------------------------------
About == Url(<<"/", "en", "/", "about">>, <<>>, "")

\* The same page behind a tracking parameter and a fragment.
AboutTracked ==
    Url(<<"/", "en", "/", "about">>, <<<<"utm_source", "x">>>>, "top")

News == Url(<<"/", "en", "/", "news">>, <<>>, "")

Events == Url(<<"/", "en", "/", "events">>, <<>>, "")

Contacts == Url(<<"/", "en", "/", "contacts">>, <<>>, "")

RuAbout == Url(<<"/", "ru", "/", "about">>, <<>>, "")

\* An HTML body: the absolute URLs of its <a href> (after urljoin, which
\* leaves an absolute href as it is), the number of entries each extractor
\* returns for it, and the extractor that raises on it ("none" if none):
\*   "seo"   - a JSON-LD block holding a number: json.loads succeeds and
\*             `"@type" in data` raises TypeError (line 224);
\*   "forms" - a form whose action makes urljoin raise ValueError (line 471).
Body(links, media, jsonld, raises) ==
    [links |-> links, media |-> media, jsonld |-> jsonld, forms |-> 0,
     integrations |-> 0, apis |-> 0, article |-> FALSE, raises |-> raises]

PageOf(b) ==
    CASE b = "P"      -> Body(<<AboutTracked, News, RuAbout>>, 1, 0, "none")
      [] b = "H"      -> Body(<<About, News, Events>>, 0, 0, "none")
      [] b = "L"      -> Body(<<About>>, 0, 0, "none")
      [] b = "Xseo"   -> Body(<<>>, 1, 1, "seo")
      [] b = "Xforms" -> Body(<<>>, 1, 0, "forms")
      [] b = "R"      -> Body(<<>>, 0, 0, "none")

\* The bodies of the pages proper; "R" is the stub page a server sends with
\* a redirect.
Bodies == {"P", "H", "L", "Xseo", "Xforms"}

\* hashlib.md5(html_content): distinct bodies have distinct digests.
md5(b) == <<"md5", b>>

NoLocation == NoURL

Http(status, location, html, body) ==
    [fault |-> "none", status |-> status, location |-> location,
     html |-> html, body |-> body]

Fault(kind) ==
    [fault |-> kind, status |-> 0, location |-> NoLocation, html |-> FALSE,
     body |-> "L"]

Locations == {AboutTracked, News, Contacts, RuAbout}

\* What session.get may produce for a request: asyncio.TimeoutError, another
\* exception, or a response with status, headers and body.
\* A 3xx status is delivered to fetch_page as the response of the request,
\* which is the case lines 680-692 are written for; it comes without a body
\* or with an HTML stub.
Responses ==
    {Fault("timeout"), Fault("error")}
    \cup {Http(404, NoLocation, TRUE, "L"), Http(200, NoLocation, FALSE, "L")}
    \cup {Http(200, NoLocation, TRUE, b) : b \in Bodies}
    \cup {Http(301, l, FALSE, "L") : l \in Locations}
    \cup {Http(301, News, TRUE, "R")}

REDIRECT_STATUSES == {301, 302, 303, 307, 308}

\* ------------------------------------------------------------------------
\* State
\* ------------------------------------------------------------------------
VARIABLES
    visited_urls,            \* set of normalized URLs (line 69)
    url_content_hashes,      \* set of [hash, url]: the dict of line 70
    redirect_map,            \* the record lists of lines 71-80
    error_log,
    url_inventory,
    structured_data_entries,
    seo_data,
    content_data,
    media_data,
    forms_data,
    integrations,
    api_endpoints,
    semaphore,               \* the value of asyncio.Semaphore (line 89)
    urls_to_crawl,           \* crawl_website: the frontier
    current_depth,
    pc,                      \* crawl_website: "loop", "gather", "done"
    tasks,                   \* the fetch_page tasks of the current batch
    requests,                \* the GET requests issued so far
    served,                  \* the response each request received
    discovered,              \* the links find_links returned, with the depth
                             \* of the page they were found on
    arg_url,                 \* the argument of normalize_url / is_allowed_url
    norm_results,            \* normalize_url(arg_url), normalize_url of that
    allow_results            \* is_allowed_url(arg_url), once computed

store == <<redirect_map, error_log, url_inventory, structured_data_entries,
           seo_data, content_data, media_data, forms_data, integrations,
           api_endpoints>>

ghost == <<requests, served, discovered>>

pure == <<arg_url, norm_results, allow_results>>

vars == <<visited_urls, url_content_hashes, store, semaphore, urls_to_crawl,
          current_depth, pc, tasks, ghost, pure>>

\* The module-level state after import and the locals of crawl_website
\* before its loop.
Fresh ==
    /\ visited_urls = {}
    /\ url_content_hashes = {}
    /\ redirect_map = <<>>
    /\ error_log = <<>>
    /\ url_inventory = <<>>
    /\ structured_data_entries = <<>>
    /\ seo_data = <<>>
    /\ content_data = <<>>
    /\ media_data = <<>>
    /\ forms_data = <<>>
    /\ integrations = <<>>
    /\ api_endpoints = <<>>
    /\ semaphore = CONCURRENT_REQUESTS
    /\ urls_to_crawl = {BASE_URL}
    /\ current_depth = 0
    /\ pc = "loop"
    /\ tasks = <<>>
    /\ requests = {}
    /\ served = {}
    /\ discovered = {}

Init ==
    /\ Fresh
    /\ arg_url = NoURL
    /\ norm_results = <<>>
    /\ allow_results = <<>>

\* ------------------------------------------------------------------------
\* fetch_page
\* ------------------------------------------------------------------------
\* An error entry filed under the referrer.
ErrorEntryUnderReferrer(url, status, referrer, notes) ==
    [url |-> referrer, status |-> status, referrer |-> referrer,
     notes |-> notes]

ErrorEntry(url, status, referrer, notes) ==
    [url |-> url, status |-> status, referrer |-> referrer, notes |-> notes]

RedirectEntry(from, to, status) ==
    [from |-> from, to |-> to, http_status |-> status, via |-> "header"]

InventoryEntry(url, type, depth, status, from, dup) ==
    [url |-> url, type |-> type, depth |-> depth, status |-> status,
     discovered_from |-> from, duplicate_of |-> dup]

\* One activation of fetch_page: its normalized URL, its arguments and the
\* suspension point it is at.
\*   "waiting"    - in `async with semaphore`, no permit free
\*   "sleeping"   - holds a permit, in asyncio.sleep(REQUEST_DELAY)
\*   "requesting" - holds a permit, the GET is outstanding
\*   "requesting" also covers response.text(): nothing is written between
\*                  the arrival of the headers and that of the body
\*   "awaiting"   - holds a permit and its response, awaiting the nested
\*                  fetch_page of a redirect
Frame(url, depth, from, at) ==
    [url |-> url, depth |-> depth, from |-> from, at |-> at]

\* A visited check that never finds the URL.
AlreadyVisitedNever(n, visited) == FALSE

\* line 649
AlreadyVisited(n, visited) == n \in visited

\* line 664
BudgetExhaustedOffByOne(visited) == Cardinality(visited) > MAX_PAGES

BudgetExhausted(visited) == Cardinality(visited) >= MAX_PAGES

\* line 667
MarkVisitedLate(visited, n) == visited

\* An assignment in place of set.add.
MarkVisitedOnly(visited, n) == {n}

MarkVisited(visited, n) == visited \cup {n}

\* asyncio.Semaphore.acquire returns at once iff a permit is free.
PermitFreeAlways(value) == TRUE

PermitFree(value) == value > 0

\* line 690
FollowRedirectNoCeiling(depth) == depth <= MAX_DEPTH

FollowRedirect(depth) == depth < MAX_DEPTH

\* fetch_page with the scope check after visited_urls.add.
EnterScopeLast(url, depth, from, visited, elog, sem) ==
    LET n == normalize_url(url)
        back == [ret |-> TRUE, visited |-> visited, error_log |-> elog,
                 semaphore |-> sem, frame |-> Frame(n, depth, from, "none")]
    IN IF AlreadyVisited(n, visited) THEN back
       ELSE IF BudgetExhausted(visited) THEN back
       ELSE IF ~is_allowed_url(n)
         THEN [back EXCEPT
                 !.visited = MarkVisited(visited, n),
                 !.error_log =
                    Append(elog, ErrorEntry(n, "skipped", from, "skipped_non_en"))]
       ELSE IF PermitFree(sem)
         THEN [ret |-> FALSE, visited |-> MarkVisited(visited, n),
               error_log |-> elog, semaphore |-> sem - 1,
               frame |-> Frame(n, depth, from, "sleeping")]
       ELSE [ret |-> FALSE, visited |-> MarkVisited(visited, n),
             error_log |-> elog, semaphore |-> sem,
             frame |-> Frame(n, depth, from, "waiting")]

\* Lines 645-670: from the call of fetch_page(url, depth, discovered_from)
\* to its first suspension point or its early return.  ret is TRUE when the
\* call returned [] without suspending.
Enter(url, depth, from, visited, elog, sem) ==
    LET n == normalize_url(url)
        back == [ret |-> TRUE, visited |-> visited, error_log |-> elog,
                 semaphore |-> sem, frame |-> Frame(n, depth, from, "none")]
    IN IF AlreadyVisited(n, visited) THEN back
       ELSE IF ~is_allowed_url(n)
         THEN [back EXCEPT !.error_log =
                  Append(elog, ErrorEntry(n, "skipped", from, "skipped_non_en"))]
       ELSE IF BudgetExhausted(visited) THEN back
       ELSE IF PermitFree(sem)
         THEN [ret |-> FALSE, visited |-> MarkVisited(visited, n),
               error_log |-> elog, semaphore |-> sem - 1,
               frame |-> Frame(n, depth, from, "sleeping")]
       ELSE [ret |-> FALSE, visited |-> MarkVisited(visited, n),
             error_log |-> elog, semaphore |-> sem,
             frame |-> Frame(n, depth, from, "waiting")]

Top(i) == tasks[i].stack[Len(tasks[i].stack)]

SetTop(i, f) ==
    [tasks EXCEPT ![i].stack[Len(tasks[i].stack)] = f]

\* The innermost fetch_page of task i returns `result` from inside its
\* `async with semaphore` block.  Every outer fetch_page of the task is at
\* `return await fetch_page(...)` (line 692) and returns the same list: each
\* leaves its own `async with` blocks, releasing its permit.
Return(i, result) ==
    /\ tasks' = [tasks EXCEPT ![i] =
                   [st |-> "done", arg |-> tasks[i].arg, stack |-> <<>>,
                    result |-> result]]
    /\ semaphore' = semaphore + Len(tasks[i].stack)

\* The task starts: gather runs the tasks in list order, each up to its
\* first suspension point.
TaskStart(i) ==
    /\ pc = "gather"
    /\ i \in 1..Len(tasks)
    /\ tasks[i].st = "new"
    /\ \A j \in 1..(i - 1) : tasks[j].st # "new"
    /\ LET e == Enter(tasks[i].arg, current_depth, NoURL, visited_urls,
                      error_log, semaphore)
       IN /\ visited_urls' = e.visited
          /\ error_log' = e.error_log
          /\ semaphore' = e.semaphore
          /\ tasks' = [tasks EXCEPT ![i] =
                IF e.ret
                THEN [st |-> "done", arg |-> tasks[i].arg, stack |-> <<>>,
                      result |-> <<>>]
                ELSE [st |-> "run", arg |-> tasks[i].arg,
                      stack |-> <<e.frame>>, result |-> <<>>]]
    /\ UNCHANGED <<url_content_hashes, redirect_map, url_inventory,
                   structured_data_entries, seo_data, content_data,
                   media_data, forms_data, integrations, api_endpoints,
                   urls_to_crawl, current_depth, pc, ghost, pure>>

\* gather runs every task of the batch up to its first suspension point
\* before the event loop handles a timer or a socket: the tasks were queued
\* first, and the delay of line 672 is not over before they have run.
AllStarted == \A k \in 1..Len(tasks) : tasks[k].st # "new"

\* A fetch_page waiting in `async with semaphore` gets a permit (line 670).
Acquire(i) ==
    /\ i \in 1..Len(tasks)
    /\ AllStarted
    /\ tasks[i].st = "run"
    /\ Top(i).at = "waiting"
    /\ PermitFree(semaphore)
    /\ semaphore' = semaphore - 1
    /\ tasks' = SetTop(i, [Top(i) EXCEPT !.at = "sleeping"])
    /\ UNCHANGED <<visited_urls, url_content_hashes, store, urls_to_crawl,
                   current_depth, pc, ghost, pure>>

\* The delay is over and the GET is sent (lines 672-675).
SendRequest(i) ==
    /\ i \in 1..Len(tasks)
    /\ AllStarted
    /\ tasks[i].st = "run"
    /\ Top(i).at = "sleeping"
    /\ tasks' = SetTop(i, [Top(i) EXCEPT !.at = "requesting"])
    /\ requests' = requests \cup
          {[url |-> Top(i).url, depth |-> Top(i).depth,
            nth |-> 1 + Cardinality({r \in requests : r.url = Top(i).url})]}
    /\ UNCHANGED <<visited_urls, url_content_hashes, store, semaphore,
                   urls_to_crawl, current_depth, pc, served, discovered,
                   pure>>

\* n copies of x: the entries an extractor returns for one page.
Rep(n, x) == [k \in 1..n |-> x]

\* extract_page_data with the inventory entry appended first, before the
\* extractors run.
extract_page_data_inventory_first(url, b, status, depth, from) ==
    LET page == PageOf(b)
        s1 == [structured_data_entries |->
                   structured_data_entries \o Rep(page.jsonld, [url |-> url]),
               seo_data |-> seo_data, content_data |-> content_data,
               media_data |-> media_data, forms_data |-> forms_data,
               integrations |-> integrations, api_endpoints |-> api_endpoints,
               url_inventory |->
                   Append(url_inventory,
                          InventoryEntry(url, get_url_type(url, page.article),
                                         depth, status, from, NoURL)),
               raised |-> TRUE]
        s2 == [s1 EXCEPT
                 !.seo_data = Append(seo_data, [url |-> url]),
                 !.content_data = Append(content_data, [url |-> url]),
                 !.media_data = media_data \o Rep(page.media, [page_url |-> url])]
        s3 == [s2 EXCEPT
                 !.forms_data = forms_data \o Rep(page.forms, [page_url |-> url]),
                 !.integrations =
                     integrations \o Rep(page.integrations, [page_url |-> url]),
                 !.api_endpoints =
                     api_endpoints \o Rep(page.apis, [page_url |-> url]),
                 !.raised = FALSE]
    IN IF page.raises = "seo" THEN s1
       ELSE IF page.raises = "forms" THEN s2
       ELSE s3

\* Lines 757-805: the extractors run one after the other and each result is
\* appended before the next extractor runs; the inventory entry is appended
\* last.  An exception of an extractor leaves extract_page_data at once.
\* The result is the ten lists as the call leaves them, and whether it raised.
extract_page_data(url, b, status, depth, from) ==
    LET page == PageOf(b)
        s1 == [structured_data_entries |->
                   structured_data_entries \o Rep(page.jsonld, [url |-> url]),
               seo_data |-> seo_data, content_data |-> content_data,
               media_data |-> media_data, forms_data |-> forms_data,
               integrations |-> integrations, api_endpoints |-> api_endpoints,
               url_inventory |-> url_inventory, raised |-> TRUE]
        s2 == [s1 EXCEPT
                 !.seo_data = Append(seo_data, [url |-> url]),
                 !.content_data = Append(content_data, [url |-> url]),
                 !.media_data = media_data \o Rep(page.media, [page_url |-> url])]
        s3 == [s2 EXCEPT
                 !.forms_data = forms_data \o Rep(page.forms, [page_url |-> url]),
                 !.integrations =
                     integrations \o Rep(page.integrations, [page_url |-> url]),
                 !.api_endpoints =
                     api_endpoints \o Rep(page.apis, [page_url |-> url]),
                 !.url_inventory =
                     Append(url_inventory,
                            InventoryEntry(url, get_url_type(url, page.article),
                                           depth, status, from, NoURL)),
                 !.raised = FALSE]
    IN IF page.raises = "seo" THEN s1
       ELSE IF page.raises = "forms" THEN s2
       ELSE s3

\* Lines 807-857: the hrefs of the page, normalized, kept when in scope and
\* not yet visited.
RECURSIVE ValidLinks(_, _)
ValidLinks(links, visited) ==
    IF links = <<>> THEN <<>>
    ELSE LET normalized == normalize_url(links[1])
         IN (IF is_allowed_url(normalized) /\ normalized \notin visited
             THEN <<normalized>> ELSE <<>>)
            \o ValidLinks(Tail(links), visited)

\* find_links without the depth guard of lines 812-813.
find_links_any_depth(b, depth, visited) ==
    ValidLinks(PageOf(b).links, visited)

find_links(b, depth, visited) ==
    IF depth >= MAX_DEPTH THEN <<>>
    ELSE ValidLinks(PageOf(b).links, visited)

Range(s) == {s[k] : k \in 1..Len(s)}

\* The status code as the error entry records it (line 697).
StatusTextLost(status) == "error"

StatusText(status) == IF status = 404 THEN "404" ELSE "http"

\* A duplicate test that never finds the fingerprint.
IsDuplicateNever(hash, hashes) == FALSE

\* `content_hash in url_content_hashes` (line 713)
IsDuplicate(hash, hashes) == \E h \in hashes : h.hash = hash

\* Lines 709-738 and 748-755, for an HTML response r of the fetch_page f of
\* task i: the duplicate check, the registration of the fingerprint, the
\* extraction and the links.
ProcessHtml(i, f, r) ==
    LET b == r.body
        known == {h \in url_content_hashes : h.hash = md5(b)}
        x == extract_page_data(f.url, b, r.status, f.depth, f.from)
        links == find_links(b, f.depth, visited_urls)
    IN IF IsDuplicate(md5(b), url_content_hashes)
       THEN /\ url_inventory' = Append(url_inventory,
                  InventoryEntry(f.url, "duplicate", f.depth, r.status,
                                 f.from, (CHOOSE h \in known : TRUE).url))
            /\ Return(i, <<>>)
            /\ UNCHANGED <<url_content_hashes, error_log,
                           structured_data_entries, seo_data, content_data,
                           media_data, forms_data, integrations,
                           api_endpoints, discovered>>
       ELSE /\ url_content_hashes' =
                  url_content_hashes \cup {[hash |-> md5(b), url |-> f.url]}
            /\ structured_data_entries' = x.structured_data_entries
            /\ seo_data' = x.seo_data
            /\ content_data' = x.content_data
            /\ media_data' = x.media_data
            /\ forms_data' = x.forms_data
            /\ integrations' = x.integrations
            /\ api_endpoints' = x.api_endpoints
            /\ url_inventory' = x.url_inventory
            /\ IF x.raised
               THEN /\ error_log' = Append(error_log,
                          ErrorEntry(f.url, "error", f.from, "exception"))
                    /\ Return(i, <<>>)
                    /\ UNCHANGED discovered
               ELSE /\ Return(i, links)
                    /\ discovered' = discovered \cup
                          {[url |-> u, depth |-> f.depth] : u \in Range(links)}
                    /\ UNCHANGED error_log

\* A content-type test that lets every response through.
IsHtmlAlways(r) == TRUE

\* 'text/html' in content_type (line 705)
IsHtml(r) == r.html

\* The GET of task i ends (lines 675-755): with an exception, or with a
\* response whose status, Location, content type and body decide what follows.
Respond(i, r) ==
    /\ i \in 1..Len(tasks)
    /\ AllStarted
    /\ tasks[i].st = "run"
    /\ Top(i).at = "requesting"
    /\ served' = served \cup {[url |-> Top(i).url, resp |-> r]}
    /\ LET f == Top(i)
           redirect == /\ r.fault = "none"
                       /\ r.status \in REDIRECT_STATUSES
                       /\ r.location # NoLocation
           e == Enter(r.location, f.depth + 1, f.url, visited_urls,
                      error_log, semaphore)
           unread == <<url_content_hashes, url_inventory,
                       structured_data_entries, seo_data, content_data,
                       media_data, forms_data, integrations, api_endpoints,
                       discovered>>
       IN /\ redirect_map' =
                IF redirect
                THEN Append(redirect_map,
                            RedirectEntry(f.url, r.location, r.status))
                ELSE redirect_map
          /\ IF r.fault = "timeout"
             THEN /\ error_log' = Append(error_log,
                        ErrorEntry(f.url, "timeout", f.from,
                                   "Request timeout after 45 seconds"))
                  /\ Return(i, <<>>)
                  /\ UNCHANGED <<visited_urls, unread>>
             ELSE IF r.fault = "error"
             THEN /\ error_log' = Append(error_log,
                        ErrorEntry(f.url, "error", f.from, "exception"))
                  /\ Return(i, <<>>)
                  /\ UNCHANGED <<visited_urls, unread>>
             ELSE IF redirect /\ FollowRedirect(f.depth)
             THEN /\ visited_urls' = e.visited
                  /\ error_log' = e.error_log
                  /\ UNCHANGED unread
                  /\ IF e.ret
                     THEN Return(i, <<>>)
                     ELSE /\ semaphore' = e.semaphore
                          /\ tasks' = [tasks EXCEPT ![i].stack =
                                Append(SubSeq(tasks[i].stack, 1,
                                              Len(tasks[i].stack) - 1),
                                       [f EXCEPT !.at = "awaiting"])
                                \o <<e.frame>>]
             ELSE IF r.status >= 400
             THEN /\ error_log' = Append(error_log,
                        ErrorEntry(f.url, StatusText(r.status), f.from, "HTTP"))
                  /\ Return(i, <<>>)
                  /\ UNCHANGED <<visited_urls, unread>>
             ELSE IF ~IsHtml(r)
             THEN /\ Return(i, <<>>)
                  /\ UNCHANGED <<visited_urls, error_log, unread>>
             ELSE /\ ProcessHtml(i, f, r)
                  /\ UNCHANGED visited_urls
    /\ UNCHANGED <<urls_to_crawl, current_depth, pc, requests, pure>>

\* ------------------------------------------------------------------------
\* crawl_website
\* ------------------------------------------------------------------------
Min(a, b) == IF a < b THEN a ELSE b

\* A loop that stops after the first level.
KeepCrawlingOneLevel ==
    /\ urls_to_crawl # {}
    /\ Cardinality(visited_urls) < MAX_PAGES
    /\ current_depth < 1

\* The loop condition of line 867.
KeepCrawling ==
    /\ urls_to_crawl # {}
    /\ Cardinality(visited_urls) < MAX_PAGES
    /\ current_depth < MAX_DEPTH

\* A batch of the whole frontier.
BatchesUntruncated ==
    {s \in [1..Cardinality(urls_to_crawl) -> urls_to_crawl] :
        \A j, k \in DOMAIN s : j # k => s[j] # s[k]}

\* urls_to_crawl[:10]: the frontier is list(set(next_urls)), whose order is
\* the iteration order of a set of strings; any BATCH_SIZE of its URLs, in
\* any order, may be the batch.
Batches ==
    {s \in [1..Min(BATCH_SIZE, Cardinality(urls_to_crawl)) -> urls_to_crawl] :
        \A j, k \in DOMAIN s : j # k => s[j] # s[k]}

\* Lines 867-873: one task per URL of the batch, then gather.
Dispatch ==
    /\ pc = "loop"
    /\ KeepCrawling
    /\ \E batch \in Batches :
          tasks' = [k \in DOMAIN batch |->
                      [st |-> "new", arg |-> batch[k], stack |-> <<>>,
                       result |-> <<>>]]
    /\ pc' = "gather"
    /\ UNCHANGED <<visited_urls, url_content_hashes, store, semaphore,
                   urls_to_crawl, current_depth, ghost, pure>>

\* gather returning as soon as one task has its result.
AnySettled == \E k \in 1..Len(tasks) : tasks[k].st = "done"

\* `await asyncio.gather(*tasks)` (line 873) returns when every task has
\* returned its list.
AllSettled == \A k \in 1..Len(tasks) : tasks[k].st = "done"

\* Lines 875-884: gather has every result; the next frontier and depth.
Collect ==
    /\ pc = "gather"
    /\ AllSettled
    /\ urls_to_crawl' = UNION {Range(tasks[k].result) : k \in 1..Len(tasks)}
    /\ current_depth' = current_depth + 1
    /\ tasks' = <<>>
    /\ pc' = "loop"
    /\ UNCHANGED <<visited_urls, url_content_hashes, store, semaphore, ghost,
                   pure>>

\* Line 889: the loop is left and save_data is called.
Finish ==
    /\ pc = "loop"
    /\ ~KeepCrawling
    /\ pc' = "done"
    /\ UNCHANGED <<visited_urls, url_content_hashes, store, semaphore,
                   urls_to_crawl, current_depth, tasks, ghost, pure>>

TaskIds == 1..BATCH_SIZE

Next ==
    \/ Dispatch
    \/ Collect
    \/ Finish
    \/ \E i \in TaskIds : TaskStart(i)
    \/ \E i \in TaskIds : Acquire(i)
    \/ \E i \in TaskIds : SendRequest(i)
    \/ \E i \in TaskIds, r \in Responses : Respond(i, r)

Spec == Init /\ [][Next]_vars

\* ------------------------------------------------------------------------
\* normalize_url and is_allowed_url applied to the URLs of a test set
\* ------------------------------------------------------------------------
TestPaths ==
    {<<"/", "en", "/">>,
     <<"/", "en">>,
     <<"/", "en", "/", "about">>,
     <<"/", "en", "/", "about", "/", "file", ".pdf">>,
     <<"/", "en", "/", "about", "/", "login">>,
     <<"/", "en", "/", "news", "/", "cart">>,
     <<"/", "en", "/", "search">>,
     <<"/", "en", "/", "other">>,
     <<"/", "ru", "/", "about">>}

\* A tracking parameter, a stable one, another one, and the two search
\* parameters; a blank value and a non-blank one.
TestParams == {"utm_source", "page", "id", "s", "search"} \X {"", "1"}

ShortQueries == UNION {[1..n -> TestParams] : n \in 0..MaxQueryLen}

\* key=1&key=2&...&key=n
Repeated(key, n) == [k \in 1..n |-> <<key, ToString(k)>>]

RepeatedBlocks ==
    {<<>>,
     Repeated("id", MAX_PARAM_VALUES),
     Repeated("id", MAX_PARAM_VALUES + 1),
     Repeated("page", MAX_PARAM_VALUES + 1)}

TestUrls ==
    {Url(p, b \o q, f) :
        p \in TestPaths, b \in RepeatedBlocks, q \in ShortQueries,
        f \in {"", "top"}}

InitUrl ==
    /\ Fresh
    /\ arg_url \in TestUrls
    /\ norm_results = <<>>
    /\ allow_results = <<>>

\* normalize_url is applied to arg_url, then to its own result.
Normalize ==
    /\ Len(norm_results) < 2
    /\ norm_results' =
          Append(norm_results,
                 normalize_url(IF norm_results = <<>> THEN arg_url
                               ELSE norm_results[Len(norm_results)]))
    /\ UNCHANGED <<visited_urls, url_content_hashes, store, semaphore,
                   urls_to_crawl, current_depth, pc, tasks, ghost, arg_url,
                   allow_results>>

\* is_allowed_url is applied to arg_url.
Classify ==
    /\ allow_results = <<>>
    /\ allow_results' = <<is_allowed_url(arg_url)>>
    /\ UNCHANGED <<visited_urls, url_content_hashes, store, semaphore,
                   urls_to_crawl, current_depth, pc, tasks, ghost, arg_url,
                   norm_results>>

NextUrl == Normalize \/ Classify

SpecUrl == InitUrl /\ [][NextUrl]_vars

\* ------------------------------------------------------------------------
\* Observations used by the properties
\* ------------------------------------------------------------------------
\* Every fetch_page activation of the current batch.
RECURSIVE FramesFrom(_)
FramesFrom(k) ==
    IF k > Len(tasks) THEN <<>> ELSE tasks[k].stack \o FramesFrom(k + 1)

AllFrames == FramesFrom(1)

Count(s, Test(_)) == Len(SelectSeq(s, Test))

\* The activations inside `async with semaphore`.
PermitsHeld ==
    Count(AllFrames, LAMBDA f : f.at \in {"sleeping", "requesting", "awaiting"})

\* The activations inside `async with session.get(...)`: the request was
\* sent and its response is not released yet.
Outstanding ==
    Count(AllFrames, LAMBDA f : f.at \in {"requesting", "awaiting"})

Waiting == Count(AllFrames, LAMBDA f : f.at = "waiting")

NonDuplicates == SelectSeq(url_inventory, LAMBDA e : e.type # "duplicate")

RequestedUrls == {r.url : r \in requests}

\* ------------------------------------------------------------------------
\* C1.  No normalized URL is requested more than once, and a URL is in
\* visited_urls before its request is issued and before the activation that
\* carries it first suspends.
\* ------------------------------------------------------------------------
C1_NoDuplicateVisits ==
    /\ \A r \in requests : r.nth = 1 /\ r.url \in visited_urls
    /\ \A k \in 1..Len(AllFrames) : AllFrames[k].url \in visited_urls

\* A redirect led to a URL that a task of the same batch carries as well:
\* the one was followed at depth 1 while the other was requested at depth 1.
C1_Witness ==
    /\ pc = "done"
    /\ \E k \in 1..Len(redirect_map) :
          /\ redirect_map[k].from = News
          /\ redirect_map[k].to = AboutTracked
    /\ [url |-> About, depth |-> 1, nth |-> 1] \in requests
    /\ [url |-> News, depth |-> 1, nth |-> 1] \in requests

\* ------------------------------------------------------------------------
\* C2.  visited_urls, the requests issued and the non-duplicate inventory
\* entries never number more than MAX_PAGES.
\* ------------------------------------------------------------------------
C2_BudgetRespect ==
    /\ Cardinality(visited_urls) <= MAX_PAGES
    /\ Cardinality(requests) <= MAX_PAGES
    /\ Len(NonDuplicates) <= MAX_PAGES

\* The budget is used up and a followed redirect to a new in-scope URL was
\* turned away by it.
C2_Witness ==
    /\ Cardinality(visited_urls) = MAX_PAGES
    /\ \E k \in 1..Len(redirect_map) :
          LET target == normalize_url(redirect_map[k].to)
          IN /\ is_allowed_url(target)
             /\ target \notin visited_urls
             /\ \E r \in requests : /\ r.url = redirect_map[k].from
                                    /\ FollowRedirect(r.depth)

\* ------------------------------------------------------------------------
\* C3.  The run always completes: as long as crawl_website has not reached
\* save_data, some step can be taken (no state has every task waiting for a
\* permit that will never be released).
\* ------------------------------------------------------------------------
C3_RunCompletes == pc = "done" \/ ENABLED Next

\* ------------------------------------------------------------------------
\* C4.  At most CONCURRENT_REQUESTS permits are held and every outstanding
\* request holds one; the semaphore's value is what is left.
\* ------------------------------------------------------------------------
C4_BoundedConcurrency ==
    /\ PermitsHeld <= CONCURRENT_REQUESTS
    /\ Outstanding <= PermitsHeld
    /\ semaphore = CONCURRENT_REQUESTS - PermitsHeld

\* All permits are held, one of them by an activation that follows a
\* redirect, and a task of the batch waits for a permit.
C4_Witness ==
    /\ PermitsHeld = CONCURRENT_REQUESTS
    /\ Outstanding = CONCURRENT_REQUESTS
    /\ Waiting > 0
    /\ \E k \in 1..Len(AllFrames) : AllFrames[k].at = "awaiting"

\* ------------------------------------------------------------------------
\* C5.  Every inventory entry, every request and every fetch_page activation
\* has depth <= MAX_DEPTH.
\* ------------------------------------------------------------------------
C5_DepthCeiling ==
    /\ \A k \in 1..Len(url_inventory) : url_inventory[k].depth <= MAX_DEPTH
    /\ \A r \in requests : r.depth <= MAX_DEPTH
    /\ \A k \in 1..Len(AllFrames) : AllFrames[k].depth <= MAX_DEPTH

\* An entry at the ceiling: a page reached by a redirect from a page of the
\* last level.
C5_Witness ==
    \E k \in 1..Len(url_inventory) :
        /\ url_inventory[k].depth = MAX_DEPTH
        /\ url_inventory[k].discovered_from # NoURL

\* ------------------------------------------------------------------------
\* C6.  A URL that find_links returned for a page whose inventory entry has
\* depth d is requested at depth d + 1 only.
\* ------------------------------------------------------------------------
C6_LinkDepth ==
    \A l \in discovered : \A r \in requests :
        r.url = l.url => r.depth = l.depth + 1

\* A successful HTML response: status < 400, content type text/html, and not
\* a redirect that was followed.
HtmlOk(r) ==
    /\ r.fault = "none"
    /\ r.status < 400
    /\ r.html
    /\ r.status \notin REDIRECT_STATUSES

EntriesFor(list, urls) == SelectSeq(list, LAMBDA e : e.url \in urls)

\* ------------------------------------------------------------------------
\* C7.  When the run is over, the seed answered 301 with Location T (in
\* scope), T answered 200 with HTML, and nothing else was requested: there is
\* exactly one redirect entry, from the seed to T with status 301, and
\* exactly one inventory entry, which is for T.
\* ------------------------------------------------------------------------
C7_RedirectAccounting ==
    \A t \in Locations :
        LET T == normalize_url(t)
        IN (/\ pc = "done"
            /\ is_allowed_url(T)
            /\ [url |-> BASE_URL, resp |-> Http(301, t, FALSE, "L")] \in served
            /\ \E b \in Bodies :
                  [url |-> T, resp |-> Http(200, NoLocation, TRUE, b)] \in served
            /\ RequestedUrls = {BASE_URL, T})
           => /\ redirect_map = <<RedirectEntry(BASE_URL, t, 301)>>
              /\ Len(url_inventory) = 1
              /\ url_inventory[1].url = T

\* ------------------------------------------------------------------------
\* C8.  Two distinct URLs, and no third, that were fetched and returned the
\* same HTML body have exactly one non-duplicate inventory entry and exactly
\* one duplicate entry between them, and the duplicate names the URL of the
\* non-duplicate one.
\* ------------------------------------------------------------------------
C8_DuplicateDetection ==
    \A s1, s2 \in served :
        (/\ s1.url # s2.url
         /\ HtmlOk(s1.resp) /\ HtmlOk(s2.resp)
         /\ s1.resp.body = s2.resp.body
         /\ \A s3 \in served :
               (HtmlOk(s3.resp) /\ s3.resp.body = s1.resp.body)
                  => s3.url \in {s1.url, s2.url})
        => LET mine == EntriesFor(url_inventory, {s1.url, s2.url})
               orig == SelectSeq(mine, LAMBDA e : e.type # "duplicate")
               dups == SelectSeq(mine, LAMBDA e : e.type = "duplicate")
           IN /\ Len(orig) = 1
              /\ Len(dups) = 1
              /\ dups[1].duplicate_of = orig[1].url

\* ------------------------------------------------------------------------
\* C9.  A page on which one extractor raises, and whose body is not a
\* duplicate, still gets its SEO, content and media entries and its
\* inventory entry.
\* ------------------------------------------------------------------------
C9_ExtractorIsolation ==
    \A s \in served :
        (/\ HtmlOk(s.resp)
         /\ PageOf(s.resp.body).raises # "none"
         /\ [hash |-> md5(s.resp.body), url |-> s.url] \in url_content_hashes)
        => /\ Len(EntriesFor(seo_data, {s.url})) = 1
           /\ Len(EntriesFor(content_data, {s.url})) = 1
           /\ Count(media_data, LAMBDA e : e.page_url = s.url)
                 = PageOf(s.resp.body).media
           /\ Len(EntriesFor(NonDuplicates, {s.url})) = 1

\* The fixture of the end-to-end scenario, as served by the site.
C10_Scenario ==
    /\ MAX_DEPTH >= 1
    /\ MAX_PAGES >= 3
    /\ [url |-> BASE_URL, resp |-> Http(200, NoLocation, TRUE, "P")] \in served
    /\ \A s \in served :
          s.url \in {About, News} =>
             /\ HtmlOk(s.resp)
             /\ s.resp.body # "P"
             /\ PageOf(s.resp.body).raises = "none"
    /\ \A s1, s2 \in served :
          (s1.url = About /\ s2.url = News) => s1.resp.body # s2.resp.body

\* ------------------------------------------------------------------------
\* C10.  The seed page has two in-scope links (/en/about behind a tracking
\* parameter, /en/news) and one out-of-scope link (/ru/about); the two linked
\* pages return distinct HTML bodies, other than the seed's, on which no
\* extractor raises; depth ceiling >= 1 and page budget >= 3.  When the run
\* is over there are one inventory entry at depth 0 and two at depth 1,
\* exactly one "skipped" log entry, and neither an entry nor a request for
\* /ru/about.
\* ------------------------------------------------------------------------
C10_EndToEnd ==
    (pc = "done" /\ C10_Scenario)
    => /\ Count(url_inventory, LAMBDA e : e.depth = 0) = 1
       /\ Count(url_inventory, LAMBDA e : e.depth = 1) = 2
       /\ Count(error_log, LAMBDA e : e.status = "skipped") = 1
       /\ EntriesFor(url_inventory, {RuAbout}) = <<>>
       /\ RuAbout \notin RequestedUrls

\* A fetch that failed: HTTP status >= 400, a timeout, or another fault of
\* the transport.
Failed(r) == r.fault # "none" \/ r.status >= 400

\* ------------------------------------------------------------------------
\* C11.  A URL whose fetch ended in an HTTP status >= 400, a timeout or a
\* transport fault has exactly one error entry, carrying the status code,
\* "timeout" or "error"; it has no inventory entry and was requested once;
\* and the rest of the run goes on: an outstanding request of the batch can
\* be answered, and a batch whose tasks have all settled can be collected.
\* ------------------------------------------------------------------------
C11_ErrorRecorded ==
    /\ \A s \in served :
          Failed(s.resp) =>
             /\ Len(EntriesFor(error_log, {s.url})) = 1
             /\ EntriesFor(error_log, {s.url})[1].status
                   = (IF s.resp.fault = "timeout" THEN "timeout"
                      ELSE IF s.resp.fault = "error" THEN "error"
                      ELSE "404")
             /\ EntriesFor(url_inventory, {s.url}) = <<>>
             /\ \A r \in requests : r.url = s.url => r.nth = 1
    /\ \A i \in 1..Len(tasks) :
          (AllStarted /\ tasks[i].st = "run" /\ Top(i).at = "requesting")
             => ENABLED (\E r \in Responses : Respond(i, r))
    /\ (pc = "gather" /\ \A k \in 1..Len(tasks) : tasks[k].st = "done")
          => ENABLED Collect

\* A task of a batch failed with 404 and returned, its error entry is
\* written, and another task of the batch has its request outstanding.
C11_Witness ==
    /\ pc = "gather"
    /\ Len(tasks) >= 2
    /\ tasks[1].st = "done"
    /\ [url |-> tasks[1].arg, resp |-> Http(404, NoLocation, TRUE, "L")]
          \in served
    /\ Len(EntriesFor(error_log, {tasks[1].arg})) = 1
    /\ tasks[2].st = "run"
    /\ Top(2).at = "requesting"

DenyCategory(u) ==
    \/ u.path[Len(u.path)] = ".pdf"
    \/ InPath(u.path, "login")
    \/ InPath(u.path, "cart")
    \/ u.query # <<>> /\ u.query[1][1] \in {"s", "search"}

\* ------------------------------------------------------------------------
\* C13.  A URL under an allowed section that falls in a deny category
\* (document extension, login or cart segment, search query) is out of
\* scope: is_allowed_url returns False for it.
\* ------------------------------------------------------------------------
C13_DenyCategories ==
    (/\ allow_results # <<>>
     /\ StartsWith(arg_url.path, <<"/", "en", "/">>)
     /\ AllowMatch(arg_url.path)
     /\ DenyCategory(arg_url))
    => allow_results[1] = FALSE

\* ------------------------------------------------------------------------
\* C14.  normalize_url applied to its own result returns that result.
\* ------------------------------------------------------------------------
C14_Idempotent ==
    Len(norm_results) = 2 => norm_results[2] = norm_results[1]

\* normalize_url was applied twice to a URL with a fragment, a tracking
\* parameter, a parameter with more than MAX_PARAM_VALUES values and a
\* stable parameter, of which the stable parameter alone is left.
C14_Witness ==
    /\ Len(norm_results) = 2
    /\ arg_url.frag = "top"
    /\ \E k \in 1..Len(arg_url.query) : IsTracking(arg_url.query[k][1])
    /\ Len(ValuesOf(arg_url.query, "id")) > MAX_PARAM_VALUES
    /\ norm_results[1] = Url(arg_url.path, <<<<"page", "1">>>>, "")

\* ------------------------------------------------------------------------
\* C15.  Between two levels no fetch_page is active, and a step that
\* replaces the frontier, advances the depth or creates the tasks of a batch
\* is taken only when every task of the batch before has returned.
\* ------------------------------------------------------------------------
C15_DepthSequential ==
    /\ [](pc = "loop" => tasks = <<>>)
    /\ [][(\/ urls_to_crawl' # urls_to_crawl
           \/ current_depth' # current_depth
           \/ \E k \in 1..Len(tasks') :
                 /\ tasks'[k].st = "new"
                 /\ (k > Len(tasks) \/ tasks[k].st # "new"))
          => \A k \in 1..Len(tasks) :
                 tasks[k].st = "done" /\ tasks[k].stack = <<>>]_vars

\* In the batch of depth 1 the second task has received its response and
\* returned while the request of the first one is still outstanding.
C15_Witness ==
    /\ pc = "gather"
    /\ current_depth = 1
    /\ Len(tasks) >= 2
    /\ tasks[1].st = "run"
    /\ Top(1).at = "requesting"
    /\ tasks[2].st = "done"
    /\ \E x \in served : x.url = tasks[2].arg

\* The three terminal conditions: frontier empty, budget used up, depth
\* ceiling reached.
Terminal ==
    \/ urls_to_crawl = {}
    \/ Cardinality(visited_urls) >= MAX_PAGES
    \/ current_depth >= MAX_DEPTH

\* ------------------------------------------------------------------------
\* C16.  When save_data is reached a terminal condition holds; between two
\* levels the controller ends the run exactly when a terminal condition
\* holds and dispatches the next batch otherwise, whatever the error log
\* holds.
\* ------------------------------------------------------------------------
C16_TerminalConditions ==
    /\ pc = "done" => Terminal
    /\ (pc = "loop" /\ ~Terminal) => (ENABLED Dispatch /\ ~ENABLED Finish)
    /\ (pc = "loop" /\ Terminal) => (ENABLED Finish /\ ~ENABLED Dispatch)

\* The run is over at the depth ceiling, with URLs left in the frontier and
\* budget left, after a page had timed out.
C16_Witness ==
    /\ pc = "done"
    /\ current_depth = MAX_DEPTH
    /\ urls_to_crawl # {}
    /\ Cardinality(visited_urls) < MAX_PAGES
    /\ \E k \in 1..Len(error_log) : error_log[k].status = "timeout"

\* A 3xx response with a Location header.
IsRedirect(r) ==
    /\ r.fault = "none"
    /\ r.status \in REDIRECT_STATUSES
    /\ r.location # NoLocation

\* ------------------------------------------------------------------------
\* C17.  On the step in which a fetch_page at depth < MAX_DEPTH receives a
\* 3xx response with a Location header: one redirect entry is appended and
\* no request is issued by the step; if the normalized target is visited
\* already, out of scope, or the budget is used up, the task returns no
\* links and visited_urls is unchanged; otherwise the target is added to
\* visited_urls and a fetch_page for it is active at depth + 1 with the
\* redirecting URL as its referrer.
\* ------------------------------------------------------------------------
C17_RedirectFollow ==
    [][\A i \in 1..Len(tasks) : \A s \in served' \ served :
          (/\ tasks[i].st = "run"
           /\ Top(i).at = "requesting"
           /\ s.url = Top(i).url
           /\ IsRedirect(s.resp)
           /\ Top(i).depth < MAX_DEPTH)
          => LET f == Top(i)
                 target == normalize_url(s.resp.location)
                 after == tasks'[i]
             IN /\ redirect_map' =
                      Append(redirect_map,
                             RedirectEntry(f.url, s.resp.location, s.resp.status))
                /\ requests' = requests
                /\ IF \/ target \in visited_urls
                      \/ ~is_allowed_url(target)
                      \/ Cardinality(visited_urls) >= MAX_PAGES
                   THEN /\ visited_urls' = visited_urls
                        /\ after.st = "done"
                        /\ after.result = <<>>
                        /\ after.stack = <<>>
                   ELSE /\ visited_urls' = visited_urls \cup {target}
                        /\ after.st = "run"
                        /\ Len(after.stack) = Len(tasks[i].stack) + 1
                        /\ LET g == after.stack[Len(after.stack)]
                           IN /\ g.url = target
                              /\ g.depth = f.depth + 1
                              /\ g.from = f.url
                              /\ g.at \in {"sleeping", "waiting"}]_vars

\* A redirect loop: /en/news, fetched at depth 1 with a followed redirect as
\* the answer, was redirected to itself; it was requested once and its task
\* has returned.
C17_Witness ==
    /\ \E k \in 1..Len(redirect_map) :
          redirect_map[k].from = News /\ redirect_map[k].to = News
    /\ [url |-> News, depth |-> 1, nth |-> 1] \in requests
    /\ {r \in requests : r.url = News} = {[url |-> News, depth |-> 1, nth |-> 1]}
    /\ pc = "done"

\* ------------------------------------------------------------------------
\* C18.  A URL requested at the depth ceiling that answered 3xx with a
\* Location header has an error entry, and no inventory, SEO or content
\* entry; its redirect was not followed.
\* ------------------------------------------------------------------------
C18_RedirectAtCeiling ==
    \A s \in served : \A r \in requests :
        (/\ r.url = s.url
         /\ r.depth >= MAX_DEPTH
         /\ IsRedirect(s.resp))
        => /\ \A q \in requests : q.depth <= MAX_DEPTH
           /\ Len(EntriesFor(error_log, {s.url})) >= 1
           /\ EntriesFor(url_inventory, {s.url}) = <<>>
           /\ EntriesFor(seo_data, {s.url}) = <<>>
           /\ EntriesFor(content_data, {s.url}) = <<>>

\* ------------------------------------------------------------------------
\* C19.  No URL that is_allowed_url rejects is ever requested, visited, in
\* the frontier or returned as a link; and the step in which fetch_page is
\* called for such a URL (the target of a followed redirect) appends one
\* "skipped" entry for it, leaves visited_urls and the requests unchanged
\* and returns no links.
\* ------------------------------------------------------------------------
C19_OutOfScope ==
    /\ [](/\ \A r \in requests : is_allowed_url(r.url)
          /\ \A u \in visited_urls \cup urls_to_crawl : is_allowed_url(u)
          /\ \A l \in discovered : is_allowed_url(l.url))
    /\ [][\A i \in 1..Len(tasks) : \A s \in served' \ served :
             (/\ tasks[i].st = "run"
              /\ Top(i).at = "requesting"
              /\ s.url = Top(i).url
              /\ IsRedirect(s.resp)
              /\ Top(i).depth < MAX_DEPTH
              /\ ~is_allowed_url(normalize_url(s.resp.location)))
             => /\ visited_urls' = visited_urls
                /\ requests' = requests
                /\ error_log' =
                      Append(error_log,
                             ErrorEntry(normalize_url(s.resp.location),
                                        "skipped", s.url, "skipped_non_en"))
                /\ tasks'[i].st = "done"
                /\ tasks'[i].result = <<>>]_vars

\* The run is over; a page of depth 1 was redirected to /ru/about, which
\* has its "skipped" entry and was neither visited nor requested, and the
\* seed page that linked to /ru/about has its inventory entry.
C19_Witness ==
    /\ pc = "done"
    /\ \E k \in 1..Len(error_log) :
          /\ error_log[k].url = RuAbout
          /\ error_log[k].status = "skipped"
          /\ error_log[k].referrer \in {About, News}
    /\ [url |-> BASE_URL, resp |-> Http(200, NoLocation, TRUE, "P")] \in served
    /\ RuAbout \notin visited_urls
    /\ RuAbout \notin RequestedUrls

\* A response with status < 400 that is not HTML.
NonHtmlOk(r) == r.fault = "none" /\ r.status < 400 /\ ~r.html

\* The record lists, without the redirect map.
page_records ==
    <<error_log, url_inventory, structured_data_entries, seo_data,
      content_data, media_data, forms_data, integrations, api_endpoints>>

BodyRead(r, d) ==
    /\ r.fault = "none"
    /\ r.status < 400
    /\ r.html
    /\ ~(IsRedirect(r) /\ d < MAX_DEPTH)

\* The extractor lists.
extracted ==
    <<structured_data_entries, seo_data, content_data, media_data,
      forms_data, integrations, api_endpoints>>

\* ------------------------------------------------------------------------
\* C21.  The step in which a fetch_page reads a body whose fingerprint is
\* registered already appends one duplicate inventory entry naming the URL
\* the fingerprint is mapped to, changes no extractor list, adds no link,
\* leaves the fingerprint map as it is, and the task returns no links.
\* ------------------------------------------------------------------------
C21_DuplicateNotExpanded ==
    [][\A i \in 1..Len(tasks) : \A s \in served' \ served :
          \A h \in url_content_hashes :
             (/\ tasks[i].st = "run"
              /\ Top(i).at = "requesting"
              /\ s.url = Top(i).url
              /\ BodyRead(s.resp, Top(i).depth)
              /\ h.hash = md5(s.resp.body))
             => /\ UNCHANGED <<url_content_hashes, extracted, error_log,
                              discovered, visited_urls>>
                /\ url_inventory' =
                      Append(url_inventory,
                             InventoryEntry(s.url, "duplicate", Top(i).depth,
                                            s.resp.status, Top(i).from, h.url))
                /\ tasks'[i].st = "done"
                /\ tasks'[i].result = <<>>]_vars

\* The run is over; /en/about and /en/news returned the same body, which
\* has links; /en/news is recorded as a duplicate of /en/about, the
\* fingerprint is mapped to /en/about alone, and no link was found at
\* depth 1 by /en/news.
C21_Witness ==
    /\ pc = "done"
    /\ [url |-> About, resp |-> Http(200, NoLocation, TRUE, "H")] \in served
    /\ [url |-> News, resp |-> Http(200, NoLocation, TRUE, "H")] \in served
    /\ \E k \in 1..Len(url_inventory) :
          /\ url_inventory[k].url = News
          /\ url_inventory[k].type = "duplicate"
          /\ url_inventory[k].duplicate_of = About
    /\ {h \in url_content_hashes : h.hash = md5("H")}
          = {[hash |-> md5("H"), url |-> About]}
    /\ EntriesFor(seo_data, {News}) = <<>>

\* The response makes fetch_page at depth d raise inside its try block: the
\* request times out or fails, or an extractor raises on a body that is not
\* a duplicate.
Raises(r, d) ==
    \/ r.fault # "none"
    \/ /\ BodyRead(r, d)
       /\ PageOf(r.body).raises # "none"
       /\ ~IsDuplicate(md5(r.body), url_content_hashes)

C23_FrontierWellFormed ==
    /\ [](/\ current_depth >= 1 =>
               \A u \in urls_to_crawl :
                  /\ normalize_url(u) = u
                  /\ u.frag = ""
                  /\ is_allowed_url(u)
                  /\ \E l \in discovered : l.url = u
          /\ \A j, k \in 1..Len(tasks) :
                j # k => tasks[j].arg # tasks[k].arg
          /\ \A l \in discovered : l.depth < MAX_DEPTH)
    /\ [][\A l \in discovered' \ discovered : l.url \notin visited_urls]_vars

\* The frontier of depth 1 after a seed page that links to /en/about with a
\* tracking parameter and a fragment, to /en/news and to /ru/about.
C23_Witness ==
    /\ pc = "loop"
    /\ current_depth = 1
    /\ [url |-> BASE_URL, resp |-> Http(200, NoLocation, TRUE, "P")] \in served
    /\ urls_to_crawl = {About, News}

\* ------------------------------------------------------------------------
\* C24.  visited_urls and the fingerprint map are empty before the first
\* batch; no step removes a URL from visited_urls or an entry from the
\* fingerprint map, and a fingerprint is never mapped to a second URL.
\* ------------------------------------------------------------------------
C24_Monotone ==
    /\ []((pc = "loop" /\ current_depth = 0) =>
             (visited_urls = {} /\ url_content_hashes = {}))
    /\ [](\A g, h \in url_content_hashes : g.hash = h.hash => g = h)
    /\ [][/\ visited_urls \subseteq visited_urls'
          /\ url_content_hashes \subseteq url_content_hashes']_vars

\* The run is over after a followed redirect, an error, a duplicate page
\* and two levels, with the budget used up and two fingerprints registered.
C24_Witness ==
    /\ pc = "done"
    /\ current_depth = MAX_DEPTH
    /\ Cardinality(visited_urls) = MAX_PAGES
    /\ Cardinality(url_content_hashes) >= 2
    /\ redirect_map # <<>>
    /\ error_log # <<>>
    /\ \E k \in 1..Len(url_inventory) : url_inventory[k].type = "duplicate"

\* The query q with its parameters k and k + 1 exchanged.
Swapped(q, k) ==
    [j \in 1..Len(q) |->
        IF j = k THEN q[k + 1] ELSE IF j = k + 1 THEN q[k] ELSE q[j]]

\* ------------------------------------------------------------------------
\* C25.  The result of normalize_url has no fragment and does not depend on
\* the order of the query parameters: exchanging two neighbouring
\* parameters with different keys in the input gives the same result.
\* ------------------------------------------------------------------------
C25_ParamOrder ==
    norm_results # <<>> =>
        /\ norm_results[1].frag = ""
        /\ \A k \in 1..(Len(arg_url.query) - 1) :
              arg_url.query[k][1] # arg_url.query[k + 1][1] =>
                 normalize_url(Url(arg_url.path, Swapped(arg_url.query, k),
                                   arg_url.frag))
                    = norm_results[1]

\* The URLs the tasks of the batch were created for.
Dispatched == {tasks[k].arg : k \in 1..Len(tasks)}

C27_OneEntryPerUrl ==
    /\ \A j, k \in 1..Len(url_inventory) :
          url_inventory[j].url = url_inventory[k].url => j = k
    /\ \A k \in 1..Len(url_inventory) : url_inventory[k].url \in visited_urls
    /\ \A k \in 1..Len(redirect_map) : redirect_map[k].from \in visited_urls
    /\ \A k \in 1..Len(error_log) :
          error_log[k].status # "skipped" => error_log[k].url \in visited_urls

\* The run is over with two inventory entries, one of them a duplicate, a
\* redirect entry and a "skipped" entry for a URL that was not visited.
C27_Witness ==
    /\ pc = "done"
    /\ Len(url_inventory) >= 2
    /\ \E k \in 1..Len(url_inventory) : url_inventory[k].type = "duplicate"
    /\ redirect_map # <<>>
    /\ \E k \in 1..Len(error_log) :
          error_log[k].status = "skipped" /\ error_log[k].url \notin visited_urls

\* ------------------------------------------------------------------------
\* C28.  The duplicate_of field of every "duplicate" inventory entry names a
\* URL that has a non-duplicate inventory entry, also when the extraction of
\* the first page with that fingerprint raised after the fingerprint was
\* registered.
\* ------------------------------------------------------------------------
C28_DuplicateOfValid ==
    \A k \in 1..Len(url_inventory) :
        url_inventory[k].type = "duplicate"
           => \E j \in 1..Len(url_inventory) :
                 /\ url_inventory[j].url = url_inventory[k].duplicate_of
                 /\ url_inventory[j].type # "duplicate"

\* ------------------------------------------------------------------------
\* C29.  Every URL with a non-duplicate inventory entry has exactly one SEO
\* entry and exactly one content entry.
\* ------------------------------------------------------------------------
C29_InventoryLast ==
    \A k \in 1..Len(url_inventory) :
        url_inventory[k].type # "duplicate"
           => /\ Len(EntriesFor(seo_data, {url_inventory[k].url})) = 1
              /\ Len(EntriesFor(content_data, {url_inventory[k].url})) = 1

\* The run is over, a page has a non-duplicate inventory entry, and another
\* page, whose forms extractor raised, has its SEO and content entries and no
\* inventory entry.
C29_Witness ==
    /\ pc = "done"
    /\ \E k \in 1..Len(url_inventory) : url_inventory[k].type # "duplicate"
    /\ \E s \in served :
          /\ HtmlOk(s.resp)
          /\ PageOf(s.resp.body).raises = "forms"
          /\ Len(EntriesFor(seo_data, {s.url})) = 1
          /\ Len(EntriesFor(content_data, {s.url})) = 1
          /\ Len(EntriesFor(url_inventory, {s.url})) = 0

====
